---- MODULE Spec2Model ----
(***************************************************************************)
(* Clinical data warehouse: the record store (utils.py), the patient visit *)
(* registry (patients.py) and the note index (notes.py).                   *)
(*                                                                         *)
(* Strings that the code inspects character by character (dates) are       *)
(* sequences of one-character strings; strings that are only compared for  *)
(* equality (ids, names) are TLA+ strings.  Python dicts are functions     *)
(* from field names to values, and the rows of the registry live in a heap *)
(* of objects because the code shares and mutates them in place.           *)
(***************************************************************************)
EXTENDS Integers, Sequences, FiniteSets, TLC

\* ------------------------------------------------------------------ bounds
\* rows the registry may hold, rows of the visit file at startup, and the
\* number of operations of a run
MaxRows == 3

MaxInitRows == 2

MaxOps == 3

\* --------------------------------------------------------------- characters
DigitChars == <<"0", "1", "2", "3", "4", "5", "6", "7", "8", "9">>

IsDigit(c) == \E i \in 1..10 : DigitChars[i] = c

DigitVal(c) == (CHOOSE i \in 1..10 : DigitChars[i] = c) - 1

EmptyStr == <<>>

\* ------------------------------------------------- datetime.strptime(%Y-%m-%d)
NoDate == <<>>

IsLeap(y) == (y % 4 = 0) /\ ((y % 100 # 0) \/ (y % 400 = 0))

DaysInMonth(y, m) ==
    IF m = 2 THEN (IF IsLeap(y) THEN 29 ELSE 28)
    ELSE IF m \in {4, 6, 9, 11} THEN 30 ELSE 31

\* %Y is exactly four digits
YearToken(t) ==
    /\ Len(t) = 4
    /\ \A i \in 1..4 : IsDigit(t[i])

\* %m is 1[0-2] | 0[1-9] | [1-9]
MonthToken(t) ==
    \/ /\ Len(t) = 2
       /\ \/ t[1] = "1" /\ t[2] \in {"0", "1", "2"}
          \/ t[1] = "0" /\ IsDigit(t[2]) /\ t[2] # "0"
    \/ /\ Len(t) = 1
       /\ IsDigit(t[1]) /\ t[1] # "0"

\* %d is 3[0-1] | [1-2]\d | 0[1-9] | [1-9] | " "[1-9]
DayToken(t) ==
    \/ /\ Len(t) = 2
       /\ \/ t[1] = "3" /\ t[2] \in {"0", "1"}
          \/ t[1] \in {"1", "2"} /\ IsDigit(t[2])
          \/ t[1] \in {"0", " "} /\ IsDigit(t[2]) /\ t[2] # "0"
    \/ /\ Len(t) = 1
       /\ IsDigit(t[1]) /\ t[1] # "0"

RECURSIVE NumVal(_)
NumVal(t) ==
    IF t = <<>> THEN 0
    ELSE IF t[Len(t)] = " " THEN 0
    ELSE 10 * NumVal(SubSeq(t, 1, Len(t) - 1)) + DigitVal(t[Len(t)])

\* the position of the dash that ends the month token, 0 when there is none
MonthEnd(s) ==
    IF Len(s) >= 7 /\ s[7] = "-" THEN 7
    ELSE IF Len(s) >= 8 /\ s[8] = "-" THEN 8
    ELSE 0

\* the parsed date <<year, month, day>>, or NoDate where strptime raises
\* ValueError (no match, unconverted data, or a day the month does not have)
Strptime(s) ==
    LET e == MonthEnd(s)
    IN  IF /\ Len(s) >= 8
           /\ YearToken(SubSeq(s, 1, 4))
           /\ s[5] = "-"
           /\ e # 0
           /\ MonthToken(SubSeq(s, 6, e - 1))
           /\ DayToken(SubSeq(s, e + 1, Len(s)))
        THEN LET y == NumVal(SubSeq(s, 1, 4))
                 m == NumVal(SubSeq(s, 6, e - 1))
                 d == NumVal(SubSeq(s, e + 1, Len(s)))
             IN  IF y >= 1 /\ d <= DaysInMonth(y, m) THEN <<y, m, d>> ELSE NoDate
        ELSE NoDate

\* datetime comparison a > b, as max() applies it to the parsed keys
DateGT(a, b) ==
    \/ a[1] > b[1]
    \/ a[1] = b[1] /\ a[2] > b[2]
    \/ a[1] = b[1] /\ a[2] = b[2] /\ a[3] > b[3]

\* ------------------------------------------------------ strftime / str()
Pad2(n) == <<DigitChars[(n \div 10) + 1], DigitChars[(n % 10) + 1]>>

Pad4(n) == Pad2(n \div 100) \o Pad2(n % 100)

\* datetime.strftime('%Y-%m-%d')
Strftime(d) == Pad4(d[1]) \o <<"-">> \o Pad2(d[2]) \o <<"-">> \o Pad2(d[3])

\* str(datetime) of a date parsed at midnight: YYYY-MM-DD 00:00:00
StrDateTime(d) == Strftime(d) \o <<" ", "0", "0", ":", "0", "0", ":", "0", "0">>

\* ------------------------------------------------------------ the data
PatientIDs == {"P1", "P2"}

VisitIDs == {"v1", "v2", "v3"}

Usernames == {"nurse1"}

\* the local date datetime.now() reports: a run lasts less than a day
Today == <<2023, 10, 2>>

\* VisitDate values of the visit file at startup: written by an earlier run
\* ("2023-10-02"), entered without zero padding ("2023-9-30"), or broken
\* ("2023-10-0")
D_Sep30 == <<"2", "0", "2", "3", "-", "9", "-", "3", "0">>

D_Oct02 == <<"2", "0", "2", "3", "-", "1", "0", "-", "0", "2">>

D_Bad == <<"2", "0", "2", "3", "-", "1", "0", "-", "0">>

LoadDates == {D_Sep30, D_Oct02, D_Bad}

\* columns of the patient-visit store, in the key order of add_patient's record
StdFields ==
    <<"PatientID", "FirstName", "LastName", "Gender", "DOB",
      "ChiefComplaint", "Department", "VisitDate", "VisitID">>

Helper == "_parsed_date"

\* what the caller passes to add_patient
PatientData ==
    { [PatientID |-> p, FirstName |-> "Ann", LastName |-> "Lee", Gender |-> "F",
       DOB |-> <<"1", "9", "9", "0", "-", "0", "1", "-", "0", "1">>,
       ChiefComplaint |-> "cough", Department |-> "ER"] : p \in PatientIDs }

Range(f) == {f[x] : x \in DOMAIN f}

SeqToSet(q) == {q[i] : i \in 1..Len(q)}

\* dict.keys(): insertion order; the helper is always the newest key
KeysOf(row) == IF Helper \in DOMAIN row THEN Append(StdFields, Helper) ELSE StdFields

\* del row[key]
DelKey(row, key) == [k \in DOMAIN row \ {key} |-> row[k]]

\* row[key] = value
SetKey(row, key, value) == [k \in DOMAIN row \cup {key} |-> IF k = key THEN value ELSE row[k]]

\* dict.get(key, default)
DictGet(row, key, default) == IF key \in DOMAIN row THEN row[key] ELSE default

\* ------------------------------------------------------ the record store
NoFile == [exists |-> FALSE, lines |-> <<>>]

CsvFile(lines) == [exists |-> TRUE, lines |-> lines]

\* str(value) as csv.writer applies it to a cell; the helper holds a datetime
CellOf(row, field) ==
    IF field \notin DOMAIN row THEN EmptyStr
    ELSE IF field = Helper THEN StrDateTime(row[field])
    ELSE row[field]

\* DictWriter._dict_to_list with restval ''
DictToList(row, fieldnames) == [i \in 1..Len(fieldnames) |-> CellOf(row, fieldnames[i])]

\* extrasaction='raise': a key outside fieldnames is a ValueError
WrongFields(row, fieldnames) == DOMAIN row \ SeqToSet(fieldnames)

\* csv.DictReader over a file: the first line names the fields of the others
load_csv_data(f) ==
    IF ~f.exists \/ f.lines = <<>> THEN <<>>
    ELSE LET header == f.lines[1]
         IN  [i \in 1..(Len(f.lines) - 1) |->
                [k \in SeqToSet(header) |->
                    f.lines[i + 1][CHOOSE j \in 1..Len(header) : header[j] = k]]]

\* where a save may be hit by a storage fault: nowhere, at open(), while
\* writing row k, or at os.replace(); a save of no rows touches no file
NoFault == [at |-> "none", k |-> 0]

FaultsFor(data) ==
    IF data = <<>> THEN {NoFault}
    ELSE {NoFault, [at |-> "open", k |-> 0], [at |-> "replace", k |-> 0]}
            \cup {[at |-> "row", k |-> k] : k \in 1..Len(data)}

None == <<>>

\* the first row writerows() cannot write: one with a key outside fieldnames,
\* or the one the storage fault hits; 0 when every row is written
FirstFailure(data, fieldnames, fault) ==
    LET bad == {i \in 1..Len(data) :
                   \/ WrongFields(data[i], fieldnames) # {}
                   \/ fault.at = "row" /\ fault.k = i}
    IN  IF bad = {} THEN 0 ELSE CHOOSE i \in bad : \A j \in bad : i <= j

\* destination written in place, no temporary file (not what the code does)
save_csv_data_in_place(dest, tmp, data, fieldnames, fault) ==
    IF data = <<>> THEN [dest |-> dest, tmp |-> tmp, raised |-> FALSE]
    ELSE
    LET fn == IF fieldnames = None THEN KeysOf(data[1]) ELSE fieldnames
        stop == FirstFailure(data, fn, fault)
        n == IF stop = 0 THEN Len(data) ELSE stop - 1
        written == CsvFile(<<fn>> \o [i \in 1..n |-> DictToList(data[i], fn)])
    IN  IF fault.at = "open" THEN [dest |-> dest, tmp |-> tmp, raised |-> TRUE]
        ELSE [dest |-> written, tmp |-> tmp, raised |-> stop # 0 \/ fault.at = "replace"]

\* an empty collection written out as an empty file (not what the code does)
save_csv_data_truncating(dest, tmp, data, fieldnames, fault) ==
    IF data = <<>> THEN [dest |-> CsvFile(<<>>), tmp |-> NoFile, raised |-> FALSE]
    ELSE
    LET fn == IF fieldnames = None THEN KeysOf(data[1]) ELSE fieldnames
        stop == FirstFailure(data, fn, fault)
        n == IF stop = 0 THEN Len(data) ELSE stop - 1
        written == IF fault.at = "open" THEN tmp
                   ELSE CsvFile(<<fn>> \o [i \in 1..n |-> DictToList(data[i], fn)])
        failed == fault.at \in {"open", "replace"} \/ stop # 0
    IN  IF failed
        THEN [dest |-> dest, tmp |-> NoFile, raised |-> TRUE]
        ELSE [dest |-> written, tmp |-> NoFile, raised |-> FALSE]

\* save_csv_data(filename, data, fieldnames): the destination file, the
\* temporary sibling and whether the call raised, once the call is over
save_csv_data(dest, tmp, data, fieldnames, fault) ==
    IF data = <<>> THEN [dest |-> dest, tmp |-> tmp, raised |-> FALSE]
    ELSE
    LET fn == IF fieldnames = None THEN KeysOf(data[1]) ELSE fieldnames
        stop == FirstFailure(data, fn, fault)
        n == IF stop = 0 THEN Len(data) ELSE stop - 1
        \* the temporary file when the with block is left
        written == IF fault.at = "open" THEN tmp
                   ELSE CsvFile(<<fn>> \o [i \in 1..n |-> DictToList(data[i], fn)])
        failed == fault.at \in {"open", "replace"} \/ stop # 0
    IN  IF failed
        THEN \* except: os.remove(temp_file) if it exists, raise
             [dest |-> dest, tmp |-> NoFile, raised |-> TRUE]
        ELSE \* os.replace(temp_file, filename)
             [dest |-> written, tmp |-> NoFile, raised |-> FALSE]

\* ------------------------------------------------------------ the state
VARIABLES
    patients,   \* PatientRegistry.patients: the list of row objects (references)
    heap,       \* the row objects (dicts) the references stand for
    file,       \* data/Patient_data.csv
    tmp,        \* data/Patient_data.csv.tmp
    ops,        \* how many operations have run
    logged,     \* the lines the latest operation appended to usage_stats.csv
    last,       \* the latest operation: its name, argument, result (for
                \* get_all_visits the returned list, as the caller now holds it)
                \* and whether a storage fault hit its save
    notes,      \* NoteManager.notes
    disk,       \* two instances on one visit file: the files, by inode
    dir,        \* ... the inode each path names, 0 for none
    inst,       \* ... each instance's position in save_csv_data
    credentials,        \* AuthSystem.credentials: username -> row
    failed_attempts,    \* AuthSystem.failed_attempts: username -> count
    calls               \* the authenticate calls made so far, oldest first

vars == <<patients, heap, file, tmp, ops, logged, last, notes, disk, dir, inst,
          credentials, failed_attempts, calls>>

\* the login component, untouched by the registry and the note index
AuthFrame == UNCHANGED <<credentials, failed_attempts, calls>>

\* the login component before anything is loaded
AuthIdle == credentials = <<>> /\ failed_attempts = <<>> /\ calls = <<>>

\* one more operation of the registry runs
Step == ops < MaxOps /\ ops' = ops + 1 /\ UNCHANGED <<notes, disk, dir, inst>> /\ AuthFrame

RetRow(r) == [kind |-> "row", val |-> r]

RetNotFound == [kind |-> "none", val |-> 0]

RetRaised == [kind |-> "raised", val |-> 0]

RetId(v) == [kind |-> "id", val |-> v]

RetBool(b) == [kind |-> "bool", val |-> b]

RetCount(n) == [kind |-> "count", val |-> n]

RetList(l) == [kind |-> "list", val |-> l]

\* the rows of a list of objects, by value
RowsOf(list, h) == [i \in 1..Len(list) |-> h[list[i]]]

\* a new object
NewRef(h) == CHOOSE r \in 1..(Cardinality(DOMAIN h) + 1) : r \notin DOMAIN h

\* the objects a list still refers to, renamed to their position in the list
Compact(list, h) == [i \in 1..Len(list) |-> h[list[i]]]

\* ----------------------------------------------------------------- startup
InitRows ==
    { [PatientID |-> p, FirstName |-> "Ann", LastName |-> "Lee", Gender |-> "F",
       DOB |-> <<"1", "9", "9", "0", "-", "0", "1", "-", "0", "1">>,
       ChiefComplaint |-> "cough", Department |-> "ER",
       VisitDate |-> d, VisitID |-> v] :
      p \in PatientIDs, d \in LoadDates, v \in VisitIDs }

InitCollections ==
    { c \in UNION {[1..n -> InitRows] : n \in 0..MaxInitRows} :
        \A i, j \in 1..Len(c) : i # j => c[i].VisitID # c[j].VisitID }

InitFiles ==
    {NoFile} \cup
    { CsvFile(<<StdFields>> \o [i \in 1..Len(c) |-> DictToList(c[i], StdFields)]) :
        c \in InitCollections }

\* PatientRegistry.__init__
Init ==
    /\ file \in InitFiles
    /\ tmp = NoFile
    /\ LET rows == load_csv_data(file)
       IN  /\ patients = [i \in 1..Len(rows) |-> i]
           /\ heap = [i \in 1..Len(rows) |-> rows[i]]
    /\ ops = 0
    /\ logged = <<>>
    /\ last = [op |-> "init", arg |-> 0, ret |-> RetNotFound, fault |-> FALSE]
    /\ notes = <<>>
    /\ disk = <<>>
    /\ dir = [dest |-> 0, tmp |-> 0]
    /\ inst = <<>>
    /\ AuthIdle

\* -------------------------------------------------------------- get_patient
\* for v in visits: v['_parsed_date'] = datetime.strptime(v['VisitDate'], ...)
RECURSIVE ParseLoop(_, _, _)
ParseLoop(h, visits, i) ==
    IF i > Len(visits) THEN [heap |-> h, raised |-> FALSE]
    ELSE LET d == Strptime(h[visits[i]].VisitDate)
         IN  IF d = NoDate THEN [heap |-> h, raised |-> TRUE]
             ELSE ParseLoop([h EXCEPT ![visits[i]] = SetKey(@, Helper, d)], visits, i + 1)

\* the newest matching row, parsed dates not compared (not what the code does)
MaxScan_newest(h, visits, i, best) == visits[Len(visits)]

\* max(visits, key=...): a later element replaces the best one only when its
\* key is strictly greater
RECURSIVE MaxScan(_, _, _, _)
MaxScan(h, visits, i, best) ==
    IF i > Len(visits) THEN best
    ELSE IF DateGT(h[visits[i]][Helper], h[best][Helper])
         THEN MaxScan(h, visits, i + 1, visits[i])
         ELSE MaxScan(h, visits, i + 1, best)

\* what a get_patient comes right after: the result of a remove_patient of the
\* same id, or nothing of the kind
After(patient_id) ==
    IF last.op = "remove" /\ last.arg = patient_id THEN last.ret ELSE RetNotFound

get_patient(patient_id) ==
    LET visits == SelectSeq(patients, LAMBDA r : heap[r].PatientID = patient_id)
    IN  /\ Step
        /\ IF visits = <<>>
           THEN /\ heap' = heap
                /\ last' = [op |-> "get", arg |-> patient_id, ret |-> RetNotFound,
                            fault |-> FALSE, after |-> After(patient_id)]
           ELSE LET parsed == ParseLoop(heap, visits, 1)
                IN  IF parsed.raised
                    THEN /\ heap' = parsed.heap
                         /\ last' = [op |-> "get", arg |-> patient_id, ret |-> RetRaised,
                                     fault |-> FALSE, after |-> After(patient_id)]
                    ELSE LET latest == MaxScan(parsed.heap, visits, 2, visits[1])
                         IN  /\ heap' = [parsed.heap EXCEPT ![latest] = DelKey(@, Helper)]
                             /\ last' = [op |-> "get", arg |-> patient_id,
                                         ret |-> RetRow(latest), fault |-> FALSE,
                                         after |-> After(patient_id)]
        /\ logged' = <<>>
        /\ UNCHANGED <<patients, file, tmp>>

\* -------------------------------------------------------------- add_patient
add_patient(patient_data, username, visit_id, fault) ==
    /\ Step
    /\ Len(patients) < MaxRows
    /\ LET today == Strftime(Today)
           record == [PatientID |-> patient_data.PatientID,
                      FirstName |-> patient_data.FirstName,
                      LastName |-> patient_data.LastName,
                      Gender |-> patient_data.Gender,
                      DOB |-> patient_data.DOB,
                      ChiefComplaint |-> patient_data.ChiefComplaint,
                      Department |-> patient_data.Department,
                      VisitDate |-> today,
                      VisitID |-> visit_id]
           r == NewRef(heap)
           heap1 == [x \in DOMAIN heap \cup {r} |-> IF x = r THEN record ELSE heap[x]]
           pats1 == Append(patients, r)
           sv == save_csv_data(file, tmp, RowsOf(pats1, heap1), StdFields, fault)
       IN  /\ patients' = pats1
           /\ heap' = heap1
           /\ file' = sv.dest
           /\ tmp' = sv.tmp
           /\ logged' = IF sv.raised THEN <<>>
                        ELSE <<[Timestamp |-> Today, Username |-> username,
                                Role |-> "patient_registry",
                                Action |-> <<"Added visit", visit_id, record.PatientID>>]>>
           /\ last' = [op |-> "add", arg |-> record.PatientID,
                       ret |-> IF sv.raised THEN RetRaised ELSE RetId(visit_id),
                       fault |-> fault.at # "none"]

\* ----------------------------------------------------------- remove_patient
\* only the first row of the patient dropped (not what the code does)
Survivors_first_dropped(list, h, patient_id) ==
    LET hits == {i \in 1..Len(list) : h[list[i]].PatientID = patient_id}
    IN  IF hits = {} THEN list
        ELSE LET f == CHOOSE i \in hits : \A j \in hits : i <= j
             IN  SubSeq(list, 1, f - 1) \o SubSeq(list, f + 1, Len(list))

\* [p for p in self.patients if p.get('PatientID') != patient_id]
Survivors(list, h, patient_id) ==
    SelectSeq(list, LAMBDA r : h[r].PatientID # patient_id)

remove_patient(patient_id, username, fault) ==
    LET before == Len(patients)
        pats1 == Survivors(patients, heap, patient_id)
        deleted == Len(pats1) < before
        keys == IF pats1 # <<>> THEN KeysOf(heap[pats1[1]]) ELSE None
        sv == IF deleted THEN save_csv_data(file, tmp, RowsOf(pats1, heap), keys, fault)
              ELSE [dest |-> file, tmp |-> tmp, raised |-> FALSE]
    IN  /\ Step
        /\ patients' = [i \in 1..Len(pats1) |-> i]
        /\ heap' = Compact(pats1, heap)
        /\ file' = sv.dest
        /\ tmp' = sv.tmp
        /\ logged' = IF deleted /\ ~sv.raised
                     THEN <<[Timestamp |-> Today, Username |-> username,
                             Role |-> "patient_registry",
                             Action |-> <<"Removed all visits", patient_id>>]>>
                     ELSE <<>>
        /\ last' = [op |-> "remove", arg |-> patient_id,
                    ret |-> IF sv.raised THEN RetRaised ELSE RetBool(deleted),
                    fault |-> deleted /\ fault.at # "none"]
    
\* ----------------------------------------------------- count_visits_by_date
QueryDates == {D_Oct02, D_Bad}

\* a row counts when its VisitDate begins with the date (not what the code does)
VisitDateIs_prefix(row, date_str) ==
    LET d == DictGet(row, "VisitDate", None)
    IN  /\ Len(date_str) <= Len(d)
        /\ SubSeq(d, 1, Len(date_str)) = date_str

\* p.get('VisitDate') == date_str
VisitDateIs(row, date_str) == DictGet(row, "VisitDate", None) = date_str

\* sum(1 for p in self.patients if ...)
RECURSIVE CountLoop(_, _, _, _)
CountLoop(rows, date_str, i, total) ==
    IF i > Len(rows) THEN total
    ELSE CountLoop(rows, date_str, i + 1,
                   IF VisitDateIs(rows[i], date_str) THEN total + 1 ELSE total)

count_visits_by_date(date_str) ==
    /\ Step
    /\ last' = [op |-> "count", arg |-> date_str,
                ret |-> RetCount(CountLoop(RowsOf(patients, heap), date_str, 1, 0)),
                fault |-> FALSE]
    /\ logged' = <<>>
    /\ UNCHANGED <<patients, heap, file, tmp>>

\* ----------------------------------------------------------- get_all_visits
\* list(self.patients): a new list of the same row objects
get_all_visits ==
    /\ Step
    /\ last' = [op |-> "list", arg |-> 0, ret |-> RetList(patients), fault |-> FALSE]
    /\ logged' = <<>>
    /\ UNCHANGED <<patients, heap, file, tmp>>

\* the caller holds the list get_all_visits returned until its next call
CallerHoldsList == last.op \in {"list", "caller"} /\ last.ret.kind = "list"

\* the caller removes the last element of the list it was given
CallerPop ==
    /\ Step
    /\ CallerHoldsList
    /\ last.ret.val # <<>>
    /\ last' = [op |-> "caller", arg |-> 0,
                ret |-> RetList(SubSeq(last.ret.val, 1, Len(last.ret.val) - 1)),
                fault |-> FALSE]
    /\ logged' = <<>>
    /\ UNCHANGED <<patients, heap, file, tmp>>

\* the caller assigns a field of a row of the list it was given
CallerSetField(i, value) ==
    /\ Step
    /\ CallerHoldsList
    /\ i \in 1..Len(last.ret.val)
    /\ heap[last.ret.val[i]].PatientID # value
    /\ heap' = [heap EXCEPT ![last.ret.val[i]].PatientID = value]
    /\ last' = [op |-> "caller", arg |-> 0, ret |-> last.ret, fault |-> FALSE]
    /\ logged' = <<>>
    /\ UNCHANGED <<patients, file, tmp>>

Next ==
    \/ \E p \in PatientIDs : get_patient(p)
    \/ \E pd \in PatientData, u \in Usernames, v \in VisitIDs :
         \E f \in FaultsFor(Append(patients, 0)) : add_patient(pd, u, v, f)
    \/ \E p \in PatientIDs, u \in Usernames :
         \E f \in FaultsFor(Survivors(patients, heap, p)) :
            remove_patient(p, u, f)
    \/ \E d \in QueryDates : count_visits_by_date(d)
    \/ get_all_visits
    \/ CallerPop
    \/ \E i \in 1..MaxRows, p \in PatientIDs : CallerSetField(i, p)

Spec == Init /\ [][Next]_vars

\* ================================================================ notes.py
NoUsername == ""

\* VisitDate values of the notes file: "2023-05-01 09:00", "2023-05-10" and
\* "Fri 2023-05-01"
N_May01_0900 ==
    <<"2", "0", "2", "3", "-", "0", "5", "-", "0", "1", " ", "0", "9", ":", "0", "0">>

N_May10 == <<"2", "0", "2", "3", "-", "0", "5", "-", "1", "0">>

N_FriMay01 == <<"F", "r", "i", " ", "2", "0", "2", "3", "-", "0", "5", "-", "0", "1">>

NoteDates == {N_May01_0900, N_May10, N_FriMay01}

\* date_str arguments: "2023-05-01", "2023-05-1", "2023-5-1", "2023-05-0",
\* "2023-02-30" and "2023-05-01 09:00"
A_May01 == <<"2", "0", "2", "3", "-", "0", "5", "-", "0", "1">>

A_May1 == <<"2", "0", "2", "3", "-", "0", "5", "-", "1">>

A_5_1 == <<"2", "0", "2", "3", "-", "5", "-", "1">>

A_May0 == <<"2", "0", "2", "3", "-", "0", "5", "-", "0">>

A_Feb30 == <<"2", "0", "2", "3", "-", "0", "2", "-", "3", "0">>

DateArgs == {A_May01, A_May1, A_5_1, A_May0, A_Feb30, N_May01_0900}

MaxNotes == 2

NoteRows ==
    { [PatientID |-> p, VisitDate |-> d, NoteText |-> "text"] :
        p \in PatientIDs, d \in NoteDates }

\* NoteManager.__init__ and _load_notes: the rows of the notes file
NotesInit ==
    /\ notes \in UNION {[1..n -> NoteRows] : n \in 0..MaxNotes}
    /\ patients = <<>>
    /\ heap = <<>>
    /\ file = NoFile
    /\ tmp = NoFile
    /\ ops = 0
    /\ logged = <<>>
    /\ last = [op |-> "init", arg |-> 0, ret |-> RetNotFound, fault |-> FALSE]
    /\ disk = <<>>
    /\ dir = [dest |-> 0, tmp |-> 0]
    /\ inst = <<>>
    /\ AuthIdle

\* the text holds the date somewhere (not what the code does)
Contains(s, prefix) ==
    \E k \in 0..(Len(s) - Len(prefix)) : \A i \in 1..Len(prefix) : s[k + i] = prefix[i]

\* str.startswith
StartsWith(s, prefix) ==
    /\ Len(prefix) <= Len(s)
    /\ \A i \in 1..Len(prefix) : s[i] = prefix[i]

\* for note in self.notes: ... matching_notes.append(note)
RECURSIVE MatchLoop(_, _, _, _, _)
MatchLoop(all, patient_id, date_str, i, matching_notes) ==
    IF i > Len(all) THEN matching_notes
    ELSE LET note == all[i]
             is_right_patient == note.PatientID = patient_id
             starts_with_date == StartsWith(DictGet(note, "VisitDate", EmptyStr), date_str)
         IN  MatchLoop(all, patient_id, date_str, i + 1,
                       IF is_right_patient /\ starts_with_date
                       THEN Append(matching_notes, note) ELSE matching_notes)

get_notes_by_date(patient_id, date_str, username) ==
    /\ IF Strptime(date_str) = NoDate
       THEN /\ last' = [op |-> "notes", arg |-> <<patient_id, date_str, username>>,
                        ret |-> [kind |-> "error", val |-> "Date must look like 2023-12-31"],
                        fault |-> FALSE]
            /\ logged' = <<>>
       ELSE LET matching_notes == MatchLoop(notes, patient_id, date_str, 1, <<>>)
            IN  /\ last' = [op |-> "notes", arg |-> <<patient_id, date_str, username>>,
                            ret |-> [kind |-> "notes", val |-> matching_notes],
                            fault |-> FALSE]
                /\ logged' = IF username # NoUsername
                             THEN <<[Timestamp |-> Today, Username |-> username,
                                     Action |-> <<"Peeked at", Len(matching_notes),
                                                  patient_id, date_str>>]>>
                             ELSE <<>>
    /\ UNCHANGED <<notes, patients, heap, file, tmp, ops, disk, dir, inst>>
    /\ AuthFrame

NotesNext ==
    \E p \in PatientIDs, d \in DateArgs, u \in Usernames \cup {NoUsername} :
        get_notes_by_date(p, d, u)

SpecNotes == NotesInit /\ [][NotesNext]_vars

\* ================================== two instances saving to one visit file
Instances == {1, 2}

MaxConcRows == 2

ConcRows ==
    { [PatientID |-> p, FirstName |-> "Ann", LastName |-> "Lee", Gender |-> "F",
       DOB |-> <<"1", "9", "9", "0", "-", "0", "1", "-", "0", "1">>,
       ChiefComplaint |-> "cough", Department |-> "ER",
       VisitDate |-> D_Oct02, VisitID |-> IF p = "P1" THEN "v1" ELSE "v2"] :
      p \in PatientIDs }

\* what an instance may hold in memory when it saves
ConcCollections == UNION {[1..n -> ConcRows] : n \in 0..MaxConcRows}

\* the visit file both instances loaded: one row
ConcOrig == <<CHOOSE r \in ConcRows : r.PatientID = "P1">>

\* writer.writeheader() and writer.writerows(data): the lines of the file
LinesOf(data) == <<StdFields>> \o [i \in 1..Len(data) |-> DictToList(data[i], StdFields)]

\* a line nobody wrote, left where a write lands beyond the end of the file
Hole == <<>>

\* write(2) of a chunk of lines at an offset of a file
WriteAt(content, pos, chunk) ==
    LET n == IF Len(content) > pos + Len(chunk) THEN Len(content) ELSE pos + Len(chunk)
    IN  [i \in 1..n |->
            IF i > pos /\ i <= pos + Len(chunk) THEN chunk[i - pos]
            ELSE IF i <= Len(content) THEN content[i]
            ELSE Hole]

\* the files that still have a name or an open descriptor
Linked(d, dr, ins) ==
    [n \in (DOMAIN d) \cap ({dr.dest, dr.tmp} \cup {ins[q].fd : q \in Instances}) |-> d[n]]

ConcFrame == UNCHANGED <<patients, heap, file, tmp, ops, logged, last, notes>> /\ AuthFrame

ConcInit ==
    /\ disk = [n \in {1} |-> LinesOf(ConcOrig)]
    /\ dir = [dest |-> 1, tmp |-> 0]
    /\ inst \in [Instances ->
                   {[pc |-> "start", data |-> d, fd |-> 0, pos |-> 0] : d \in ConcCollections}]
    /\ patients = <<>>
    /\ heap = <<>>
    /\ file = NoFile
    /\ tmp = NoFile
    /\ ops = 0
    /\ logged = <<>>
    /\ last = [op |-> "init", arg |-> 0, ret |-> RetNotFound, fault |-> FALSE]
    /\ notes = <<>>
    /\ AuthIdle

\* if not data: return; else open(temp_file, 'w'): create the file or truncate it
ConcOpen(p) ==
    /\ inst[p].pc = "start"
    /\ IF inst[p].data = <<>>
       THEN /\ inst' = [inst EXCEPT ![p].pc = "done"]
            /\ UNCHANGED <<disk, dir>>
       ELSE IF dir.tmp = 0
       THEN LET n == NewRef(disk)
            IN  /\ disk' = [x \in DOMAIN disk \cup {n} |-> IF x = n THEN <<>> ELSE disk[x]]
                /\ dir' = [dir EXCEPT !.tmp = n]
                /\ inst' = [inst EXCEPT ![p] = [@ EXCEPT !.pc = "writing", !.fd = n, !.pos = 0]]
       ELSE /\ disk' = [disk EXCEPT ![dir.tmp] = <<>>]
            /\ dir' = dir
            /\ inst' = [inst EXCEPT ![p] =
                          [@ EXCEPT !.pc = "writing", !.fd = dir.tmp, !.pos = 0]]
    /\ ConcFrame

\* the buffered writer flushes the lines up to line k to the descriptor
ConcWrite(p, k) ==
    /\ inst[p].pc = "writing"
    /\ k > inst[p].pos
    /\ k <= Len(LinesOf(inst[p].data))
    /\ disk' = [disk EXCEPT ![inst[p].fd] =
                  WriteAt(@, inst[p].pos, SubSeq(LinesOf(inst[p].data), inst[p].pos + 1, k))]
    /\ inst' = [inst EXCEPT ![p].pos = k]
    /\ dir' = dir
    /\ ConcFrame

\* the with block ends: the descriptor is closed
ConcClose(p) ==
    /\ inst[p].pc = "writing"
    /\ inst[p].pos = Len(LinesOf(inst[p].data))
    /\ inst' = [inst EXCEPT ![p] = [@ EXCEPT !.pc = "closed", !.fd = 0]]
    /\ disk' = Linked(disk, dir, inst')
    /\ dir' = dir
    /\ ConcFrame

\* os.replace(temp_file, filename); FileNotFoundError when the name is gone
ConcReplace(p) ==
    /\ inst[p].pc = "closed"
    /\ IF dir.tmp # 0
       THEN /\ dir' = [dest |-> dir.tmp, tmp |-> 0]
            /\ inst' = [inst EXCEPT ![p].pc = "done"]
       ELSE /\ dir' = dir
            /\ inst' = [inst EXCEPT ![p].pc = "failed"]
    /\ disk' = Linked(disk, dir', inst')
    /\ ConcFrame

\* except: if os.path.exists(temp_file): os.remove(temp_file); raise e
ConcCleanup(p) ==
    /\ inst[p].pc = "failed"
    /\ dir' = [dir EXCEPT !.tmp = 0]
    /\ inst' = [inst EXCEPT ![p].pc = "raised"]
    /\ disk' = Linked(disk, dir', inst')
    /\ ConcFrame

ConcNext ==
    \E p \in Instances :
        \/ ConcOpen(p)
        \/ \E k \in 1..(MaxConcRows + 1) : ConcWrite(p, k)
        \/ ConcClose(p)
        \/ ConcReplace(p)
        \/ ConcCleanup(p)

SpecConc == ConcInit /\ [][ConcNext]_vars

\* ================================================================= auth.py
\* the calls of a run, and the rows of the credentials file
MaxAuthCalls == 3

MaxCredRows == 2

\* "mallory" has no account
AuthUsernames == {"alice", "bob", "mallory"}

Passwords == {"secret", "Secret"}

Roles == {"nurse", "admin"}

CredRows ==
    { [username |-> u, password |-> pw, role |-> r] :
        u \in {"alice", "bob"}, pw \in Passwords, r \in Roles }

CredFields == <<"username", "password", "role">>

\* data/credentials.csv: missing, or some rows under the header
CredFiles ==
    {NoFile} \cup
    { CsvFile(<<CredFields>> \o [i \in 1..Len(rows) |-> DictToList(rows[i], CredFields)]) :
        rows \in UNION {[1..n -> CredRows] : n \in 0..MaxCredRows} }

\* {row['username']: row for row in ...}: a later row of the same username
\* replaces the earlier one
RECURSIVE DictByUsername(_, _, _)
DictByUsername(rows, i, acc) ==
    IF i > Len(rows) THEN acc
    ELSE DictByUsername(rows, i + 1, SetKey(acc, rows[i].username, rows[i]))

\* csv.DictReader over the file; {} when the file is missing
_load_credentials(f) ==
    IF ~f.exists THEN <<>> ELSE DictByUsername(load_csv_data(f), 1, <<>>)

\* AuthSystem.__init__
AuthInit ==
    /\ \E f \in CredFiles : credentials = _load_credentials(f)
    /\ failed_attempts = <<>>
    /\ calls = <<>>
    /\ patients = <<>>
    /\ heap = <<>>
    /\ file = NoFile
    /\ tmp = NoFile
    /\ ops = 0
    /\ logged = <<>>
    /\ last = [op |-> "init", arg |-> 0, ret |-> RetNotFound, fault |-> FALSE]
    /\ notes = <<>>
    /\ disk = <<>>
    /\ dir = [dest |-> 0, tmp |-> 0]
    /\ inst = <<>>

\* _log_activity: the line appended to data/usage_stats.csv
AuthLogLine(username, role, action) ==
    <<[Timestamp |-> Today, Username |-> username, Role |-> role, Action |-> action]>>

RetSession(username, role) ==
    [kind |-> "session", val |-> [username |-> username, role |-> role, login_time |-> Today]]

\* access denied after two failures in a row (not what the code does)
AuthOutcome_lockout(creds, failed, username, password) ==
    IF username \notin DOMAIN creds
    THEN [ret |-> RetNotFound, failed |-> failed,
          logged |-> AuthLogLine(username, "unknown", "Failed login (user not found)")]
    ELSE IF creds[username].password # password
            \/ (username \in DOMAIN failed /\ failed[username] >= 2)
    THEN [ret |-> RetNotFound,
          failed |-> SetKey(failed, username, DictGet(failed, username, 0) + 1),
          logged |-> AuthLogLine(username, creds[username].role,
                                 "Failed login (incorrect password)")]
    ELSE [ret |-> RetSession(username, creds[username].role),
          failed |-> DelKey(failed, username),
          logged |-> AuthLogLine(username, creds[username].role, "Successful login")]

\* failures of unknown usernames counted too (not what the code does)
AuthOutcome_counts_unknown(creds, failed, username, password) ==
    IF username \notin DOMAIN creds
    THEN [ret |-> RetNotFound,
          failed |-> SetKey(failed, username, DictGet(failed, username, 0) + 1),
          logged |-> AuthLogLine(username, "unknown", "Failed login (user not found)")]
    ELSE IF creds[username].password # password
    THEN [ret |-> RetNotFound,
          failed |-> SetKey(failed, username, DictGet(failed, username, 0) + 1),
          logged |-> AuthLogLine(username, creds[username].role,
                                 "Failed login (incorrect password)")]
    ELSE [ret |-> RetSession(username, creds[username].role),
          failed |-> DelKey(failed, username),
          logged |-> AuthLogLine(username, creds[username].role, "Successful login")]

\* the body of authenticate: what it returns, the counters and the audit
\* line it leaves
AuthOutcome(creds, failed, username, password) ==
    IF username \notin DOMAIN creds
    THEN \* if not user: log, return None
         [ret |-> RetNotFound, failed |-> failed,
          logged |-> AuthLogLine(username, "unknown", "Failed login (user not found)")]
    ELSE IF creds[username].password # password
    THEN \* log, failed_attempts[username] += 1 (from 0 when absent), return None
         [ret |-> RetNotFound,
          failed |-> SetKey(failed, username, DictGet(failed, username, 0) + 1),
          logged |-> AuthLogLine(username, creds[username].role,
                                 "Failed login (incorrect password)")]
    ELSE \* del failed_attempts[username] when present, log, return the session
         [ret |-> RetSession(username, creds[username].role),
          failed |-> DelKey(failed, username),
          logged |-> AuthLogLine(username, creds[username].role, "Successful login")]

authenticate(username, password) ==
    LET out == AuthOutcome(credentials, failed_attempts, username, password)
    IN  /\ Len(calls) < MaxAuthCalls
        /\ calls' = Append(calls, <<username, password>>)
        /\ failed_attempts' = out.failed
        /\ logged' = out.logged
        /\ last' = [op |-> "auth", arg |-> <<username, password>>, ret |-> out.ret,
                    fault |-> FALSE]
        /\ UNCHANGED <<credentials, patients, heap, file, tmp, ops, notes, disk, dir, inst>>

AuthNext == \E u \in AuthUsernames, pw \in Passwords : authenticate(u, pw)

SpecAuth == AuthInit /\ [][AuthNext]_vars

\* ================================================================ claims
\* the rows of one patient, as list positions, and the day number of a row
VisitsOf(p) == {i \in 1..Len(patients) : heap[patients[i]].PatientID = p}

Parseable(i) == Strptime(heap[patients[i]].VisitDate) # NoDate

DayNumber(i) ==
    LET d == Strptime(heap[patients[i]].VisitDate)
    IN  d[1] * 10000 + d[2] * 100 + d[3]

\* get_patient just returned for a patient whose rows all parse
GotParsed ==
    /\ last.op = "get"
    /\ VisitsOf(last.arg) # {}
    /\ \A i \in VisitsOf(last.arg) : Parseable(i)

\* C1: for a patient with two or more rows, all parseable and on pairwise
\* different dates, get_patient returns the row with the greatest parsed
\* VisitDate, wherever that row stands in the collection.
C1_LatestIsMaxDate ==
    ( /\ GotParsed
      /\ Cardinality(VisitsOf(last.arg)) >= 2
      /\ \A i, j \in VisitsOf(last.arg) : i # j => DayNumber(i) # DayNumber(j) )
    => /\ last.ret.kind = "row"
       /\ last.ret.val \in {patients[i] : i \in VisitsOf(last.arg)}
       /\ \A i \in VisitsOf(last.arg) :
            DayNumber(i) <= DayNumber(CHOOSE k \in VisitsOf(last.arg) :
                                         patients[k] = last.ret.val)

\* C1 happens: the row returned is the patient's first row, an older row
\* follows it, and the two dates order differently as text ("2023-9-30")
C1_Witness ==
    /\ GotParsed
    /\ Cardinality(VisitsOf(last.arg)) >= 2
    /\ \A i, j \in VisitsOf(last.arg) : i # j => DayNumber(i) # DayNumber(j)
    /\ last.ret.kind = "row"
    /\ \E j \in VisitsOf(last.arg) :
          /\ patients[j] # last.ret.val
          /\ \A i \in VisitsOf(last.arg) : i <= j
          /\ heap[patients[j]].VisitDate = D_Sep30

\* the rows of the patient that share the patient's greatest date
TiedAtMax(p) ==
    {i \in VisitsOf(p) : \A j \in VisitsOf(p) : DayNumber(j) <= DayNumber(i)}

\* C2: when several rows of the patient share the greatest VisitDate,
\* get_patient returns the last of them in the order of the collection.
C2_LastOfTiesWins ==
    (GotParsed /\ Cardinality(TiedAtMax(last.arg)) >= 2)
    => /\ last.ret.kind = "row"
       /\ \E i \in TiedAtMax(last.arg) :
            /\ patients[i] = last.ret.val
            /\ \A j \in TiedAtMax(last.arg) : j <= i

\* C3: add_patient for P returning v, followed at once by get_patient(P),
\* yields a row whose VisitID is v whenever no other row of P has a later
\* VisitDate, also when an earlier row of P carries the same date.
C3_AddThenGet ==
    [][ ( /\ last.op = "add"
          /\ last.ret.kind = "id"
          /\ last'.op = "get"
          /\ last'.arg = last.arg
          /\ \A i \in VisitsOf(last.arg) :
               Parseable(i) /\ DayNumber(i) <= DayNumber(Len(patients)) )
        => /\ last'.ret.kind = "row"
           /\ heap'[last'.ret.val].VisitID = last.ret.val ]_vars

\* the row of the visit file a freshly started registry would hold at i
Reloaded(f, i) == load_csv_data(f)[i]

\* the visit file holds exactly the rows in memory
FileHoldsMemory(f, pats, h) ==
    /\ Len(load_csv_data(f)) = Len(pats)
    /\ \A i \in 1..Len(pats) : \A k \in SeqToSet(StdFields) :
          Reloaded(f, i)[k] = h[pats[i]][k]

\* C4: when remove_patient removed a row, the visit file holds exactly the
\* surviving rows on return, so a reloaded registry has no row of the removed
\* patient; also when no row survives.
C4_RemovePersists ==
    (last.op = "remove" /\ last.ret.kind = "bool" /\ last.ret.val)
    => /\ FileHoldsMemory(file, patients, heap)
       /\ \A i \in 1..Len(load_csv_data(file)) : Reloaded(file, i).PatientID # last.arg

\* C5: without a storage fault add_patient completes after any operations:
\* it returns a VisitID, the collection is the previous one with the new row
\* at its end, and the visit file holds the whole collection.
C5_AddCompletes ==
    [][ (last'.op = "add" /\ ~last'.fault)
        => /\ last'.ret.kind = "id"
           /\ Len(patients') = Len(patients) + 1
           /\ \A i \in 1..Len(patients) : heap'[patients'[i]] = heap[patients[i]]
           /\ heap'[patients'[Len(patients')]].PatientID = last'.arg
           /\ heap'[patients'[Len(patients')]].VisitID = last'.ret.val
           /\ FileHoldsMemory(file', patients', heap') ]_vars

\* C6: a save that fails leaves the destination file with its complete
\* previous content and no temporary file, and the fault reaches the caller.
C6_FailedSaveKeepsFile ==
    [][ /\ (last'.op \in {"add", "remove"} /\ last'.ret.kind = "raised")
           => (file' = file /\ tmp' = NoFile)
        /\ (last'.op \in {"add", "remove"} /\ last'.fault)
           => last'.ret.kind = "raised" ]_vars

\* C6 happens: a storage fault hit a save over an existing visit file that
\* already held rows, and the registry had rows to write
C6_Witness ==
    /\ last.op = "add"
    /\ last.fault
    /\ last.ret.kind = "raised"
    /\ file.exists
    /\ Len(file.lines) >= 2
    /\ Len(patients) >= 2

\* C8: nothing the caller does to the list get_all_visits returned, neither
\* removing elements nor assigning a field of a row, changes the collection
\* of the registry.
C8_SnapshotIsolated ==
    [][ last'.op = "caller"
        => RowsOf(patients', heap') = RowsOf(patients, heap) ]_vars

\* the text has the shape YYYY-MM-DD: four digits, two digits, two digits
IsYMD(s) ==
    /\ Len(s) = 10
    /\ \A i \in {1, 2, 3, 4, 6, 7, 9, 10} : IsDigit(s[i])
    /\ s[5] = "-" /\ s[8] = "-"

\* ... and names a day of the calendar
IsValidYMD(s) ==
    /\ IsYMD(s)
    /\ NumVal(SubSeq(s, 1, 4)) >= 1
    /\ NumVal(SubSeq(s, 6, 7)) \in 1..12
    /\ NumVal(SubSeq(s, 9, 10)) \in
          1..DaysInMonth(NumVal(SubSeq(s, 1, 4)), NumVal(SubSeq(s, 6, 7)))

\* C9: for every date_str that is not of the shape YYYY-MM-DD, get_notes_by_date
\* returns an error result with a message and appends no audit entry.
C9_MalformedDateRejected ==
    (last.op = "notes" /\ ~IsYMD(last.arg[2]))
    => (last.ret.kind = "error" /\ logged = <<>>)

\* the notes a call must return: the patient's, whose VisitDate begins with
\* the date
Expected(all, patient_id, date_str) ==
    SelectSeq(all, LAMBDA n :
        /\ n.PatientID = patient_id
        /\ Len(n.VisitDate) >= Len(date_str)
        /\ SubSeq(n.VisitDate, 1, Len(date_str)) = date_str)

C7_DestinationComplete ==
    dir.dest # 0
    => disk[dir.dest] \in
          {LinesOf(ConcOrig)} \cup
          {LinesOf(inst[p].data) : p \in {q \in Instances : inst[q].data # <<>>}}

\* a call that names an account and gives its stored password
RightPassword(call) ==
    /\ call[1] \in DOMAIN credentials
    /\ credentials[call[1]].password = call[2]

\* a call that names an account and gives another password
WrongPassword(call) ==
    /\ call[1] \in DOMAIN credentials
    /\ credentials[call[1]].password # call[2]

\* C11: authenticate returns a session with the username and the stored role
\* exactly when the username has an account and the password is the stored
\* one, whatever failed attempts came before.
C11_SessionIffMatch ==
    last.op = "auth"
    => /\ (last.ret.kind = "session") <=> RightPassword(last.arg)
       /\ last.ret.kind # "session" => last.ret.kind = "none"
       /\ last.ret.kind = "session"
          => /\ last.ret.val.username = last.arg[1]
             /\ last.ret.val.role = credentials[last.arg[1]].role

\* C11 happens: a login succeeded right after two failed attempts of the
\* same account
C11_Witness ==
    /\ last.op = "auth"
    /\ last.ret.kind = "session"
    /\ Len(calls) >= 3
    /\ \A i \in (Len(calls) - 2)..(Len(calls) - 1) :
          calls[i][1] = last.arg[1] /\ WrongPassword(calls[i])

\* the positions of the calls for a username, and of its successful logins
CallsOf(u) == {i \in 1..Len(calls) : calls[i][1] = u}

LastSuccess(u) ==
    LET ok == {i \in CallsOf(u) : RightPassword(calls[i])}
    IN  IF ok = {} THEN 0 ELSE CHOOSE i \in ok : \A j \in ok : j <= i

\* wrong-password attempts of the username since its last successful login
WrongSince(u) ==
    Cardinality({i \in CallsOf(u) : i > LastSuccess(u) /\ WrongPassword(calls[i])})

\* C12: the counter of every account is the number of its wrong-password
\* attempts since its last successful login, absent when that is zero, and a
\* username without an account has no counter.
C12_CounterCountsFailures ==
    \A u \in AuthUsernames :
        IF u \in DOMAIN credentials /\ WrongSince(u) > 0
        THEN u \in DOMAIN failed_attempts /\ failed_attempts[u] = WrongSince(u)
        ELSE u \notin DOMAIN failed_attempts

\* C12 happens: an account failed, logged in, and failed again, so its
\* counter is below its number of failures
C12_Witness ==
    /\ \E u \in DOMAIN failed_attempts :
          /\ failed_attempts[u] = 1
          /\ LastSuccess(u) > 1
    /\ Len(calls) = 3

SameCollection(a, b) ==
    /\ Len(a) = Len(b)
    /\ \A i \in 1..Len(a) :
          /\ DOMAIN a[i] = DOMAIN b[i]
          /\ \A k \in DOMAIN a[i] : a[i][k] = b[i][k]

\* C14: after a save of a non-empty collection, loading the same path yields
\* a collection equal to the one saved, field for field and in the same order.
C14_RoundTrip ==
    [][ ( /\ last'.op \in {"add", "remove"}
          /\ last'.ret.kind \in {"id", "bool"}
          /\ (last'.op = "remove" => last'.ret.val)
          /\ patients' # <<>> )
        => SameCollection(load_csv_data(file'), RowsOf(patients', heap')) ]_vars

\* C15: a get_patient that comes right after a remove_patient of the same id
\* finds nothing, whether or not the removal removed rows or could save.
C15_RemoveThenGet ==
    [][ (last.op = "remove" /\ last'.op = "get" /\ last'.arg = last.arg)
        => last'.ret.kind = "none" ]_vars

\* C15 happens: get_patient came right after a remove_patient that removed
\* rows of the patient and left other rows in the registry
C15_Witness ==
    /\ last.op = "get"
    /\ last.after.kind = "bool"
    /\ last.after.val
    /\ last.ret.kind = "none"
    /\ patients # <<>>

\* C16: a save of an empty collection (remove_patient took the last rows)
\* changes no file: the visit file keeps its content or stays absent, no
\* temporary file appears, and nothing is raised.
C16_EmptySaveIsNoOp ==
    [][ (last'.op = "remove" /\ patients # <<>> /\ patients' = <<>>)
        => /\ last'.ret.kind = "bool"
           /\ file' = file
           /\ tmp' = tmp ]_vars

\* C16 happens: remove_patient removed every row while the visit file held rows
C16_Witness ==
    /\ last.op = "remove"
    /\ last.ret.kind = "bool"
    /\ last.ret.val
    /\ patients = <<>>
    /\ file.exists
    /\ Len(file.lines) >= 2

\* the rows whose VisitDate is the text, character for character
RowsDated(pats, h, d) == {i \in 1..Len(pats) : h[pats[i]].VisitDate = d}

\* C17, as stated: count_visits_by_date returns the number of rows whose
\* VisitDate equals date_str exactly, returns zero for a malformed date_str,
\* and leaves the collection unchanged.
C17_ZeroForMalformed ==
    [][ last'.op = "count"
        => /\ last'.ret.val = Cardinality(RowsDated(patients, heap, last'.arg))
           /\ ~IsValidYMD(last'.arg) => last'.ret.val = 0
           /\ patients' = patients
           /\ RowsOf(patients', heap') = RowsOf(patients, heap) ]_vars

\* C17, amended: count_visits_by_date returns the number of rows whose
\* VisitDate equals date_str exactly (no prefix tolerance), for a malformed
\* date_str too, and leaves the collection unchanged.
C17_CountsExactMatches ==
    [][ last'.op = "count"
        => /\ last'.ret.val = Cardinality(RowsDated(patients, heap, last'.arg))
           /\ patients' = patients
           /\ RowsOf(patients', heap') = RowsOf(patients, heap) ]_vars

\* C17 happens: a row dated exactly "2023-10-0" was counted and a row dated
\* "2023-10-02", which begins with that text, was not
C17_Witness ==
    /\ last.op = "count"
    /\ last.arg = D_Bad
    /\ last.ret.val = 1
    /\ \E i \in 1..Len(patients) : heap[patients[i]].VisitDate = D_Oct02

\* C18: get_patient is a pure read: whatever it returns or raises, every row
\* has the fields and values it had before, and no row carries the helper.
C18_GetIsPureRead ==
    [][ last'.op = "get"
        => /\ patients' = patients
           /\ SameCollection(RowsOf(patients', heap'), RowsOf(patients, heap))
           /\ \A i \in 1..Len(patients') : Helper \notin DOMAIN heap'[patients'[i]] ]_vars

\* C19: when the save inside add_patient or remove_patient raises, the
\* collection in memory is the one before the call, it agrees with the visit
\* file if it did before, and no audit entry is written.
C19_FailedSaveChangesNothing ==
    [][ (last'.op \in {"add", "remove"} /\ last'.ret.kind = "raised")
        => /\ SameCollection(RowsOf(patients', heap'), RowsOf(patients, heap))
           /\ FileHoldsMemory(file, patients, heap)
              => FileHoldsMemory(file', patients', heap')
           /\ logged' = <<>> ]_vars

====
